---------------------------- MODULE Spec2Model ----------------------------
(***************************************************************************)
(* Model of search-api: the data synchronizer (search_api/data.py), the    *)
(* TF-IDF search engine (search_api/search.py) and the wiring of the two   *)
(* in search_api/main.py.                                                  *)
(*                                                                         *)
(* The program runs on one asyncio event loop.  A coroutine runs without   *)
(* interruption from one await to the next, so every action below is the   *)
(* code executed between two consecutive suspension points of a coroutine. *)
(* Text is a sequence of one-character strings; a term is such a sequence. *)
(***************************************************************************)
EXTENDS Integers, Sequences, FiniteSets, TLC

-----------------------------------------------------------------------------
(* Bounds of the model *)

\* most items the upstream puts on one page
MaxItems == 1
\* most pages one full fetch can ask for (fixes the largest upstream total)
MaxPages == 2
\* no refresh is called once the store has been loaded this many times
MaxLoads == 2

\* most documents of a list the engine is built from on its own
MaxDocs == 3
\* the engine on its own is rebuilt at most this many times
MaxBuilds == 2
\* largest SEARCH_CACHE_SIZE of the engine on its own
MaxCache == 2
\* largest skip of a search
MaxSkip == 2
\* largest limit of a search
MaxLimit == 2

(* Program constants *)

\* config.py: HTTP_MAX_RETRIES (default of the environment variable)
HTTP_MAX_RETRIES == 3
\* data.py, fetch_all_messages: limit = 100
limit == 100
\* config.py: SEARCH_CACHE_SIZE (default of the environment variable)
DEFAULT_SEARCH_CACHE_SIZE == 1000
\* config.py: MAX_RECORDS (default of the environment variable)
DEFAULT_MAX_RECORDS == 50000

\* Python's None for an integer-valued local
None == -1

-----------------------------------------------------------------------------
(* search.py: tokenizer and stemmer *)

STOP_WORDS ==
  {
    <<"a">>, <<"a", "n">>, <<"t", "h", "e">>, <<"a", "n", "d">>, <<"o", "r">>,
    <<"b", "u", "t">>, <<"i", "n">>, <<"o", "n">>, <<"a", "t">>, <<"t", "o">>,
    <<"f", "o", "r">>, <<"o", "f">>, <<"w", "i", "t", "h">>, <<"b", "y">>,
    <<"f", "r", "o", "m">>, <<"i", "s">>, <<"a", "r", "e">>, <<"w", "a", "s">>,
    <<"w", "e", "r", "e">>, <<"b", "e">>, <<"b", "e", "e", "n">>, <<"b", "e", "i", "n", "g">>,
    <<"h", "a", "v", "e">>, <<"h", "a", "s">>, <<"h", "a", "d">>, <<"d", "o">>,
    <<"d", "o", "e", "s">>, <<"d", "i", "d">>, <<"w", "i", "l", "l">>,
    <<"w", "o", "u", "l", "d">>, <<"c", "o", "u", "l", "d">>, <<"s", "h", "o", "u", "l", "d">>,
    <<"m", "a", "y">>, <<"m", "i", "g", "h", "t">>, <<"m", "u", "s", "t">>,
    <<"s", "h", "a", "l", "l">>, <<"c", "a", "n">>, <<"n", "e", "e", "d">>,
    <<"t", "h", "i", "s">>, <<"t", "h", "a", "t">>, <<"t", "h", "e", "s", "e">>,
    <<"t", "h", "o", "s", "e">>, <<"i">>, <<"y", "o", "u">>, <<"h", "e">>, <<"s", "h", "e">>,
    <<"i", "t">>, <<"w", "e">>, <<"t", "h", "e", "y">>, <<"m", "y">>, <<"y", "o", "u", "r">>,
    <<"h", "i", "s">>, <<"h", "e", "r">>, <<"i", "t", "s">>, <<"o", "u", "r">>,
    <<"t", "h", "e", "i", "r">>, <<"m", "e">>, <<"h", "i", "m">>, <<"u", "s">>,
    <<"t", "h", "e", "m">>, <<"w", "h", "a", "t">>, <<"w", "h", "i", "c", "h">>,
    <<"w", "h", "o">>, <<"w", "h", "o", "m">>, <<"w", "h", "e", "n">>,
    <<"w", "h", "e", "r", "e">>, <<"w", "h", "y">>, <<"h", "o", "w">>, <<"a", "l", "l">>,
    <<"e", "a", "c", "h">>, <<"e", "v", "e", "r", "y">>, <<"b", "o", "t", "h">>,
    <<"f", "e", "w">>, <<"m", "o", "r", "e">>, <<"m", "o", "s", "t">>,
    <<"o", "t", "h", "e", "r">>, <<"s", "o", "m", "e">>, <<"s", "u", "c", "h">>, <<"n", "o">>,
    <<"n", "o", "t">>, <<"o", "n", "l", "y">>, <<"s", "a", "m", "e">>, <<"s", "o">>,
    <<"t", "h", "a", "n">>, <<"t", "o", "o">>, <<"v", "e", "r", "y">>, <<"j", "u", "s", "t">>,
    <<"a", "l", "s", "o">>, <<"n", "o", "w">>, <<"h", "e", "r", "e">>,
    <<"t", "h", "e", "r", "e">>, <<"t", "h", "e", "n">>, <<"o", "n", "c", "e">>, <<"i", "f">>,
    <<"a", "s">>
  }

SUFFIX_RULES ==
  <<
    <<<<"a", "t", "i", "o", "n", "a", "l">>, <<"a", "t", "e">>>>,
    <<<<"t", "i", "o", "n", "a", "l">>, <<"t", "i", "o", "n">>>>,
    <<<<"e", "n", "c", "i">>, <<"e", "n", "c", "e">>>>,
    <<<<"a", "n", "c", "i">>, <<"a", "n", "c", "e">>>>,
    <<<<"i", "z", "e", "r">>, <<"i", "z", "e">>>>,
    <<<<"i", "s", "a", "t", "i", "o", "n">>, <<"i", "z", "e">>>>,
    <<<<"i", "z", "a", "t", "i", "o", "n">>, <<"i", "z", "e">>>>,
    <<<<"a", "t", "i", "o", "n">>, <<"a", "t", "e">>>>,
    <<<<"a", "t", "o", "r">>, <<"a", "t", "e">>>>,
    <<<<"a", "l", "i", "s", "m">>, <<"a", "l">>>>,
    <<<<"i", "v", "e", "n", "e", "s", "s">>, <<"i", "v", "e">>>>,
    <<<<"f", "u", "l", "n", "e", "s", "s">>, <<"f", "u", "l">>>>,
    <<<<"o", "u", "s", "n", "e", "s", "s">>, <<"o", "u", "s">>>>,
    <<<<"a", "l", "i", "t", "i">>, <<"a", "l">>>>,
    <<<<"i", "v", "i", "t", "i">>, <<"i", "v", "e">>>>,
    <<<<"b", "i", "l", "i", "t", "i">>, <<"b", "l", "e">>>>,
    <<<<"a", "l", "l", "i">>, <<"a", "l">>>>,
    <<<<"e", "n", "t", "l", "i">>, <<"e", "n", "t">>>>,
    <<<<"e", "l", "i">>, <<"e">>>>,
    <<<<"o", "u", "s", "l", "i">>, <<"o", "u", "s">>>>,
    <<<<"l", "e", "s", "s", "n", "e", "s", "s">>, <<"l", "e", "s", "s">>>>,
    <<<<"n", "e", "s", "s">>, <<>>>>,
    <<<<"m", "e", "n", "t">>, <<>>>>,
    <<<<"i", "n", "g", "s">>, <<>>>>,
    <<<<"i", "n", "g">>, <<>>>>,
    <<<<"e", "d", "l", "y">>, <<"e", "d">>>>,
    <<<<"i", "e", "d">>, <<"y">>>>,
    <<<<"i", "e", "s">>, <<"y">>>>,
    <<<<"e", "d">>, <<>>>>,
    <<<<"l", "y">>, <<>>>>,
    <<<<"e", "s">>, <<>>>>,
    <<<<"s">>, <<>>>>
  >>

\* str.lower() on the characters of the model's alphabet
lower(c) ==
  CASE c = "A" -> "a" [] c = "B" -> "b" [] c = "C" -> "c" [] c = "D" -> "d"
    [] c = "E" -> "e" [] c = "F" -> "f" [] c = "G" -> "g" [] c = "H" -> "h"
    [] c = "I" -> "i" [] c = "J" -> "j" [] c = "K" -> "k" [] c = "L" -> "l"
    [] c = "M" -> "m" [] c = "N" -> "n" [] c = "O" -> "o" [] c = "P" -> "p"
    [] c = "Q" -> "q" [] c = "R" -> "r" [] c = "S" -> "s" [] c = "T" -> "t"
    [] c = "U" -> "u" [] c = "V" -> "v" [] c = "W" -> "w" [] c = "X" -> "x"
    [] c = "Y" -> "y" [] c = "Z" -> "z" [] OTHER -> c

\* the character class [a-z0-9] of _TOKEN_PATTERN
TokenChars ==
  {"a", "b", "c", "d", "e", "f", "g", "h", "i", "j", "k", "l", "m", "n", "o", "p", "q",
   "r", "s", "t", "u", "v", "w", "x", "y", "z",
   "0", "1", "2", "3", "4", "5", "6", "7", "8", "9"}

\* \w of the regex on lowercased text: [a-z0-9] and the underscore (non-ASCII letters, also \w, are left out of the alphabet)
IsWordChar(c) == c \in TokenChars \/ c = "_"

\* \b at the gap before position i of s (between s[i-1] and s[i])
WordBoundary(s, i) ==
  LET before == i > 1 /\ IsWordChar(s[i - 1])
      after == i <= Len(s) /\ IsWordChar(s[i])
  IN before # after

\* the greedy end of [a-z0-9]+ started at i
RECURSIVE RunEnd(_, _)
RunEnd(s, i) == IF i < Len(s) /\ s[i + 1] \in TokenChars THEN RunEnd(s, i + 1) ELSE i

\* _TOKEN_PATTERN.findall: left to right, non-overlapping matches of \b[a-z0-9]+\b.
\* Inside a run of [a-z0-9] there is no \b, so the only candidate end is the run's end.
RECURSIVE findall(_, _)
findall(s, i) ==
  IF i > Len(s) THEN <<>>
  ELSE IF s[i] \in TokenChars /\ WordBoundary(s, i) /\ WordBoundary(s, RunEnd(s, i) + 1)
       THEN <<SubSeq(s, i, RunEnd(s, i))>> \o findall(s, RunEnd(s, i) + 1)
       ELSE findall(s, i + 1)

\* the tokens with their stop words
SelectWithStop(tokens) == tokens

\* tokenize, "[t for t in tokens if t not in STOP_WORDS]"
SelectNotStop(tokens) == SelectSeq(tokens, LAMBDA t : t \notin STOP_WORDS)

tokenize(text, remove_stopwords) ==
  LET tokens == findall([i \in 1..Len(text) |-> lower(text[i])], 1)
  IN IF remove_stopwords THEN SelectNotStop(tokens) ELSE tokens

endswith(word, suffix) ==
  /\ Len(suffix) <= Len(word)
  /\ SubSeq(word, Len(word) - Len(suffix) + 1, Len(word)) = suffix

\* the for loop of stem over _SUFFIX_RULES, from rule r on
RECURSIVE stem_rules(_, _)
stem_rules(word, r) ==
  IF r > Len(SUFFIX_RULES) THEN word
  ELSE LET suffix == SUFFIX_RULES[r][1]
           replacement == SUFFIX_RULES[r][2]
       IN IF endswith(word, suffix) /\ Len(word) - Len(suffix) >= 2
          THEN SubSeq(word, 1, Len(word) - Len(suffix)) \o replacement
          ELSE stem_rules(word, r + 1)

stem(word) == IF Len(word) <= 3 THEN word ELSE stem_rules(word, 1)

stem_all(tokens) == [i \in 1..Len(tokens) |-> stem(tokens[i])]

-----------------------------------------------------------------------------
(* models.py: Message *)

Msg1 ==
  [id |-> "1", user_id |-> "u1", user_name |-> <<"A", "n", "n">>, timestamp |-> 2,
   message |-> <<"C", "a", "t", "s", " ", "r", "u", "n", "n", "i", "n", "g">>]

Msg2 ==
  [id |-> "2", user_id |-> "u2", user_name |-> <<"B", "o">>, timestamp |-> 1,
   message |-> <<"t", "h", "e", " ", "c", "a", "t", " ", "r", "a", "n", "!">>]

Msg3 ==
  [id |-> "3", user_id |-> "u1", user_name |-> <<"A", "n", "n">>, timestamp |-> 3,
   message |-> <<"I", "t", " ", "i", "s", "!">>]

Msg4 ==
  [id |-> "4", user_id |-> "u2", user_name |-> <<"B", "o">>, timestamp |-> 0,
   message |-> <<"c", "a", "t", " ", "c", "a", "t">>]

\* a message that yields no token: a stop word, sent by a name with no letter
Msg5 ==
  [id |-> "5", user_id |-> "u3", user_name |-> <<"?">>, timestamp |-> 4,
   message |-> <<"t", "h", "e">>]

\* The Message objects of the model.  Messages are frozen, and a list of messages
\* holds references to them: in the model a list holds indices of Objects.
Objects == <<Msg1, Msg2, Msg3, Msg4, Msg5>>

Refs == DOMAIN Objects

\* the collection of the upstream, in the order it serves it
Collection == <<1, 2, 3, 4>>

\* the upstream serves its collection in one order, record k being the k-th of
\* Collection and repeating from there: the n records after the first "before" ones
served(before, n) ==
  [i \in 1..n |-> Collection[((before + i - 1) % Len(Collection)) + 1]]

-----------------------------------------------------------------------------
(* search.py: SearchEngine *)

EmptyMap == [t \in {} |-> 0]

\* round(10^6 * ln k) for k = 1..12; math.log(n / d) is LnMicro[n] - LnMicro[d]
LnMicro ==
  <<0, 693147, 1098612, 1386294, 1609438, 1791759, 1945910, 2079442, 2197225, 2302585,
    2397895, 2484907>>

log_ratio(n, d) == LnMicro[n] - LnMicro[d]

\* SearchEngine.__init__
NewSearchEngine ==
  [index |-> EmptyMap, messages |-> <<>>, doc_term_freq |-> EmptyMap,
   doc_lengths |-> EmptyMap, idf |-> EmptyMap, version |-> 0]

\* self._index[token].add(idx) on a defaultdict(set)
add_posting(index, token, idx) ==
  IF token \in DOMAIN index
  THEN [index EXCEPT ![token] = @ \cup {idx}]
  ELSE index @@ (token :> {idx})

\* for token in tokens: self._index[token].add(idx)
RECURSIVE add_postings(_, _, _, _)
add_postings(index, tokens, k, idx) ==
  IF k > Len(tokens) THEN index
  ELSE add_postings(add_posting(index, tokens[k], idx), tokens, k + 1, idx)

\* for token in all_tokens: term_freq[token] += 1 on a defaultdict(int)
RECURSIVE count_terms(_, _, _)
count_terms(term_freq, tokens, k) ==
  IF k > Len(tokens) THEN term_freq
  ELSE LET token == tokens[k]
           counted == IF token \in DOMAIN term_freq
                      THEN [term_freq EXCEPT ![token] = @ + 1]
                      ELSE term_freq @@ (token :> 1)
       IN count_terms(counted, tokens, k + 1)

\* a term as the str it is in the dicts of the engine
RECURSIVE str(_)
str(word) == IF word = <<>> THEN "" ELSE Head(word) \o str(Tail(word))

strs(tokens) == [i \in 1..Len(tokens) |-> str(tokens[i])]

\* tokenize and stem are pure: the token lists build_index computes for a message,
\* tabulated once over the messages of the model
Tokens ==
  [ref \in Refs |->
     LET msg == Objects[ref]
         raw_tokens == tokenize(msg.message, TRUE)
     IN [raw_tokens |-> strs(raw_tokens),
         stemmed |-> strs(stem_all(raw_tokens)),
         name_tokens |-> strs(stem_all(tokenize(msg.user_name, FALSE)))]]

\* the length of a document with no token left at 0
doc_length_plain(all_tokens) == Len(all_tokens)

\* build_index, "len(all_tokens) or 1"
doc_length(all_tokens) == IF Len(all_tokens) = 0 THEN 1 ELSE Len(all_tokens)

\* one pass of the loop "for idx, msg in enumerate(messages)" of build_index
index_message(self, msg, idx) ==
  LET raw_tokens == Tokens[msg].raw_tokens
      stemmed == Tokens[msg].stemmed
      name_tokens == Tokens[msg].name_tokens
      all_tokens == stemmed \o name_tokens
      with_all == add_postings(self.index, all_tokens, 1, idx)
      with_raw == add_postings(with_all, raw_tokens, 1, idx)
  IN [self EXCEPT
        !.index = with_raw,
        !.doc_term_freq = @ @@ (idx :> count_terms(EmptyMap, all_tokens, 1)),
        !.doc_lengths = @ @@ (idx :> doc_length(all_tokens))]

RECURSIVE index_messages(_, _, _)
index_messages(self, messages, idx) ==
  IF idx >= Len(messages) THEN self
  ELSE index_messages(index_message(self, messages[idx + 1], idx), messages, idx + 1)

\* clear_index without self._index.clear(): the postings of the previous list stay
clear_index_keeps_postings(self) ==
  [self EXCEPT !.doc_term_freq = EmptyMap, !.doc_lengths = EmptyMap, !.idf = EmptyMap]

\* the four clear() calls at the head of build_index
clear_index(self) ==
  [self EXCEPT !.index = EmptyMap, !.doc_term_freq = EmptyMap,
               !.doc_lengths = EmptyMap, !.idf = EmptyMap]

\* the version left as it is
bump_version_not(self) == self

\* build_index, "self._version += 1"
bump_version(self) == [self EXCEPT !.version = @ + 1]

\* SearchEngine.build_index: synchronous, it has no await
build_index(self, messages) ==
  LET cleared == bump_version([clear_index(self) EXCEPT !.messages = messages])
      filled == index_messages(cleared, messages, 0)
      n_docs == Len(messages)
  IN IF n_docs > 0
     THEN [filled EXCEPT !.idf = [term \in DOMAIN filled.index |->
                                    log_ratio(n_docs, Cardinality(filled.index[term]))]]
     ELSE filled

-----------------------------------------------------------------------------
(* data.py: DataStore; main.py: lifespan and the /refresh endpoint *)

VARIABLES
  data_store,     \* the DataStore instance of data.py
  search_engine,  \* the SearchEngine instance of search.py
  task,           \* the coroutines that call DataStore.refresh, by caller
  app,            \* main.py: "created", "starting", "serving", "failed" or "stopped"
  clock,          \* datetime.now(UTC), advanced when it is read
  MAX_RECORDS,    \* config.py: MAX_RECORDS, read from the environment at import
  fixed_total,    \* the total of an upstream whose collection never changes, or None
  snapshots,      \* whether a call of refresh records the state it starts in
  page_items,     \* the most items the upstream puts on one page
  SEARCH_CACHE_SIZE, \* config.py: SEARCH_CACHE_SIZE, read from the environment
  cache           \* the lru_cache of SearchEngine._cached_search

vars ==
  <<data_store, search_engine, task, app, clock, MAX_RECORDS, fixed_total, snapshots,
    page_items, SEARCH_CACHE_SIZE, cache>>

\* what the environment sets once
env == <<MAX_RECORDS, fixed_total, snapshots, page_items, SEARCH_CACHE_SIZE>>

\* the callers of DataStore.refresh: lifespan (main.py:37), _background_loop
\* (data.py:167) and the /refresh endpoint (main.py:107)
Callers == {"lifespan", "background", "api"}

\* values of the MAX_RECORDS environment variable
MaxRecordsValues == {1, DEFAULT_MAX_RECORDS}

\* totals the upstream can report: none, one page, and up to MaxPages pages
Totals == {0, 1} \cup {limit * k + 1 : k \in 1..(MaxPages - 1)}

\* status codes of the upstream; 401, 403, 404 and 429 stop the pagination
StopStatuses == {401, 403, 404, 429}
Statuses == {200, 500} \cup StopStatuses

\* the totals a body can report: an upstream whose collection never changes
\* reports one total for ever
ReportedTotals == IF fixed_total = None THEN Totals ELSE {fixed_total}

max(a, b) == IF a >= b THEN a ELSE b

min(a, b) == IF a <= b THEN a ELSE b

\* how many items a page asked at offset skip can hold: any number up to
\* page_items; an upstream whose collection never changes serves what it has from
\* skip on, in pages it caps at page_items
ItemCounts(skip) ==
  IF fixed_total = None THEN 0..page_items
  ELSE {min(page_items, max(0, fixed_total - skip))}

\* what one GET at offset skip can yield to a caller that holds "have" records of
\* this fetch: httpx.RequestError; a response with another status than 200; a 200
\* whose body is not JSON; a 200 with items that do not validate as Message; a 200
\* with valid items (or none).  A response is told apart by what its reader reads
\* of it: _get_remote_total reads the total only (a body without one reads as 0),
\* fetch_all_messages reads the items, and the total on its first page only.
Responses(skip, have, reads_items, reads_total) ==
  LET counts == IF reads_items THEN ItemCounts(skip) ELSE {0}
      totals == IF reads_total THEN ReportedTotals ELSE {0}
  IN {[kind |-> "RequestError", status_code |-> 0, json |-> FALSE, items |-> <<>>,
       valid |-> FALSE, total |-> 0]}
     \cup {[kind |-> "Response", status_code |-> s, json |-> FALSE, items |-> <<>>,
            valid |-> FALSE, total |-> 0] : s \in Statuses}
     \cup {[kind |-> "Response", status_code |-> 200, json |-> TRUE,
            items |-> served(have, n), valid |-> FALSE, total |-> 0] :
              n \in counts \ {0}}
     \cup {[kind |-> "Response", status_code |-> 200, json |-> TRUE,
            items |-> served(have, n), valid |-> TRUE, total |-> t] :
              n \in counts, t \in totals}

\* the responses the GET of _get_remote_total can get
ProbeResponses == Responses(0, 0, FALSE, TRUE)

\* the responses the GET that the caller p waits for in _fetch_page can get
PageResponses(p) ==
  Responses(task[p].skip, Len(task[p].messages), TRUE, task[p].total = None)

\* DataStore.__init__ (refresh_task is whether _refresh_task holds a task; loops
\* counts the _background_loop tasks that were created and not cancelled)
NewDataStore ==
  [messages |-> <<>>, last_refresh |-> None, last_total |-> 0, refresh_task |-> FALSE,
   ready |-> FALSE, on_refresh |-> "None", loops |-> 0]

\* what a caller of refresh can compare before and after the call
Snapshot(ds, se) ==
  [messages |-> ds.messages, last_total |-> ds.last_total,
   last_refresh |-> ds.last_refresh, ready |-> ds.ready, search_engine |-> se]

\* a coroutine that is not inside refresh.  pc is the await it is suspended at;
\* force is the argument of refresh; skip, total, messages of
\* fetch_all_messages; attempt of _fetch_page; delay is the argument of the
\* asyncio.sleep it is in.  The rest records the call for the properties: ret and
\* path (how refresh ended), pages (calls of _fetch_page), gets and fails (GETs
\* sent and failed in the last _fetch_page), fetched (how the last _fetch_page
\* ended), before (the state at the call) and after (how the call of this caller
\* before this one ended), the last two where calls are recorded.
IdleTask ==
  [pc |-> "idle", force |-> FALSE, skip |-> 0, total |-> None,
   messages |-> <<>>, attempt |-> 0, delay |-> 0,
   ret |-> "none", path |-> "none", pages |-> 0, gets |-> 0, fails |-> 0,
   fetched |-> "none", before |-> Snapshot(NewDataStore, NewSearchEngine),
   after |-> "none"]

InitProgram ==
  /\ data_store = NewDataStore
  /\ search_engine = NewSearchEngine
  /\ task = [p \in Callers |-> IdleTask]
  /\ app = "created"
  /\ clock = 0
  /\ MAX_RECORDS \in MaxRecordsValues
  /\ SEARCH_CACHE_SIZE = DEFAULT_SEARCH_CACHE_SIZE
  /\ cache = <<>>

\* any upstream, calls not recorded
Init ==
  InitProgram /\ fixed_total = None /\ snapshots = FALSE /\ page_items = MaxItems

\* any upstream, each call records the state it starts in
InitCalls ==
  InitProgram /\ fixed_total = None /\ snapshots = TRUE /\ page_items = MaxItems

\* an upstream whose collection never changes: it reports the same total for ever
\* and serves the same pages
InitSteady ==
  InitProgram /\ fixed_total \in Totals /\ snapshots = FALSE /\ page_items = MaxItems

\* any upstream, its pages holding one item more
InitCap ==
  InitProgram /\ fixed_total = None /\ snapshots = FALSE
  /\ page_items = MaxItems + 1

\* refresh up to its first await: the GET of _get_remote_total; t is what the
\* caller's call before this one left
call_refresh(t, force) ==
  [IdleTask EXCEPT !.pc = "probe", !.force = force,
                   !.before = IF snapshots THEN Snapshot(data_store, search_engine)
                              ELSE @,
                   !.after = IF snapshots THEN t.path ELSE @]

\* the locals of a finished call are gone; what the call did stays recorded
finished(t, ret, path, fetched) ==
  [IdleTask EXCEPT !.force = t.force, !.ret = ret, !.path = path, !.fetched = fetched,
                   !.pages = IF path = "failed" THEN t.pages ELSE 0]

\* a start that does not look whether a loop is registered
start_background_refresh_again(ds) ==
  [ds EXCEPT !.refresh_task = TRUE, !.loops = @ + 1]

\* DataStore.start_background_refresh: a loop is created if none is registered
start_background_refresh(ds) ==
  IF ~ds.refresh_task
  THEN [ds EXCEPT !.refresh_task = TRUE, !.loops = @ + 1]
  ELSE ds

\* DataStore.stop_background_refresh: the registered loop is cancelled
stop_background_refresh(ds) ==
  IF ds.refresh_task
  THEN [ds EXCEPT !.refresh_task = FALSE, !.loops = @ - 1]
  ELSE ds

\* refresh returns or raises to its caller p, its locals being t, the store ds and
\* the engine se.
\* lifespan goes on to start_background_refresh (or fails the startup on a raise);
\* _background_loop catches and sleeps again; the endpoint answers.
returns(p, t, ret, path, fetched, ds, se) ==
  /\ task' = [task EXCEPT ![p] = finished(t, ret, path, fetched)]
  /\ data_store' = IF p = "lifespan" /\ ret # "raise"
                   THEN start_background_refresh(ds)
                   ELSE ds
  /\ search_engine' = se
  /\ app' = IF p = "lifespan"
            THEN (IF ret = "raise" THEN "failed" ELSE "serving")
            ELSE app

\* refresh, "if remote_total is None": return False
refresh_no_total(p) ==
  /\ returns(p, task[p], "False", "no_total", task[p].fetched, data_store, search_engine)
  /\ UNCHANGED clock

\* the skip condition with != for ==
total_unchanged_inverted(force, remote_total) ==
  ~force /\ data_store.ready /\ remote_total # data_store.last_total

\* the condition of "Skip refresh if total unchanged"
total_unchanged(force, remote_total) ==
  ~force /\ data_store.ready /\ remote_total = data_store.last_total

\* refresh, the skip: return False
refresh_unchanged(p) ==
  /\ returns(p, task[p], "False", "unchanged", task[p].fetched, data_store, search_engine)
  /\ UNCHANGED clock

\* an except that never re-raises
refresh_except_swallows(p, t, fetched) ==
  /\ returns(p, t, "False", "failed", fetched, data_store, search_engine)
  /\ UNCHANGED clock

\* an except that degrades gracefully at bootstrap too: it marks the store ready
refresh_except_sets_ready(p, t, fetched) ==
  /\ returns(p, t, "False", "failed", fetched, [data_store EXCEPT !.ready = TRUE],
             search_engine)
  /\ UNCHANGED clock

\* refresh, "except Exception": raise if not ready, else return False
refresh_except(p, t, fetched) ==
  /\ IF ~data_store.ready
     THEN returns(p, t, "raise", "failed", fetched, data_store, search_engine)
     ELSE returns(p, t, "False", "failed", fetched, data_store, search_engine)
  /\ UNCHANGED clock

\* the callback never invoked
invoke_on_refresh_never(new_messages) == search_engine

\* the callback invoked with the list the store held before the assignment
invoke_on_refresh_with_old_list(new_messages) ==
  IF data_store.on_refresh = "build_index"
  THEN build_index(search_engine, data_store.messages)
  ELSE search_engine

\* refresh, "if self._on_refresh: self._on_refresh(new_messages)": the engine the
\* callback leaves
invoke_on_refresh(new_messages) ==
  IF data_store.on_refresh = "build_index"
  THEN build_index(search_engine, new_messages)
  ELSE search_engine

\* the commit with the total that the upstream reported on the first page as the
\* last-known total
refresh_load_with_remote_total(p, t, new_messages, fetched) ==
  /\ clock' = clock + 1
  /\ returns(p, t, "True", "loaded", fetched,
             [data_store EXCEPT !.messages = new_messages,
                                !.last_total = IF t.total = None THEN 0 ELSE t.total,
                                !.last_refresh = clock + 1,
                                !.ready = TRUE],
             invoke_on_refresh(new_messages))

\* refresh after fetch_all_messages has returned new_messages: the assignments,
\* the callback and return True, with no await in between
refresh_load(p, t, new_messages, fetched) ==
  /\ clock' = clock + 1
  /\ returns(p, t, "True", "loaded", fetched,
             [data_store EXCEPT !.messages = new_messages,
                                !.last_total = Len(new_messages),
                                !.last_refresh = clock + 1,
                                !.ready = TRUE],
             invoke_on_refresh(new_messages))

\* the last-attempt test off by one
is_last_attempt_off_by_one(attempt) == attempt = HTTP_MAX_RETRIES

\* _fetch_page, "if attempt == HTTP_MAX_RETRIES - 1: raise"
is_last_attempt(attempt) == attempt = HTTP_MAX_RETRIES - 1

\* a backoff that starts at two seconds
backoff_delay_from_two(attempt) == 2 ^ (attempt + 1)

\* _fetch_page, "await asyncio.sleep(1 << attempt)": the seconds slept after the
\* failed attempt of this number (the attempts count from 0)
backoff_delay(attempt) == 2 ^ attempt

\* fetch_all_messages up to the await of the first GET of a page
request_page(t, skip, total, messages) ==
  [t EXCEPT !.pc = "page", !.skip = skip, !.total = total, !.messages = messages,
            !.attempt = 0, !.delay = 0, !.pages = @ + 1, !.gets = 1, !.fails = 0,
            !.fetched = "pending"]

\* _fetch_page after a GET that raised RequestError, or whose raise_for_status
\* raised HTTPStatusError: raise on the last attempt (the error leaves
\* fetch_all_messages and reaches the except of refresh), else
\* asyncio.sleep(1 << attempt)
fetch_page_failed(p) ==
  LET t == [task[p] EXCEPT !.fails = @ + 1]
  IN IF is_last_attempt(t.attempt)
     THEN refresh_except(p, t, "raised")
     ELSE /\ task' = [task EXCEPT ![p] = [t EXCEPT !.pc = "backoff",
                                                  !.delay = backoff_delay(t.attempt)]]
          /\ UNCHANGED <<data_store, search_engine, app, clock>>

\* no status stops the pagination
stops_pagination_never(status_code) == FALSE

\* the stop set without the rate-limit status
stops_pagination_but_429(status_code) == status_code \in {401, 403, 404}

\* _fetch_page, "if response.status_code in {401, 403, 404, 429}"
stops_pagination(status_code) == status_code \in StopStatuses

\* "total or 0"
or_zero(total) == IF total = None THEN 0 ELSE total

\* the offset advanced by the number of records received
next_skip_by_items(skip, items) == skip + Len(items)

\* fetch_all_messages, "skip += limit"
next_skip(skip, items) == skip + limit

\* items that do not validate taken as they are
validates_anything(r) == TRUE

\* fetch_all_messages, "Message.model_validate(item) for item in items": whether
\* every item of r validates
validates(r) == r.valid

\* fetch_all_messages after _fetch_page returned the response r (status 200)
fetch_page_ok(p, r) ==
  LET t == task[p]
      messages == t.messages \o r.items
      total == IF t.total = None THEN r.total ELSE t.total
      skip == next_skip(t.skip, r.items)
  IN IF ~r.json
     THEN \* response.json() raises
          refresh_except(p, t, "response")
     ELSE IF r.items = <<>>
     THEN \* "if not items: break"
          refresh_load(p, t, t.messages, "response")
     ELSE IF ~validates(r)
     THEN \* Message.model_validate raises ValidationError
          refresh_except(p, t, "response")
     ELSE IF skip >= min(or_zero(total), MAX_RECORDS)
     THEN refresh_load(p, t, messages, "response")
     ELSE \* asyncio.sleep(0.05) before the next page
          /\ task' = [task EXCEPT ![p] = [t EXCEPT !.pc = "pause", !.skip = skip,
                                                    !.total = total,
                                                    !.messages = messages,
                                                    !.fetched = "response"]]
          /\ UNCHANGED <<data_store, search_engine, app, clock>>

-----------------------------------------------------------------------------
(* The steps: each is the code a coroutine runs between two awaits *)

\* main.py, lifespan: set_on_refresh(search_engine.build_index), then
\* refresh(force=True) up to its first await
Lifespan ==
  /\ app = "created"
  /\ app' = "starting"
  /\ data_store' = [data_store EXCEPT !.on_refresh = "build_index"]
  /\ task' = [task EXCEPT !["lifespan"] = call_refresh(@, TRUE)]
  /\ UNCHANGED <<search_engine, clock, env, cache>>

\* a loop that ends when a refresh has failed
BackgroundLoopUntilFailure ==
  /\ data_store.refresh_task
  /\ task["background"].pc = "idle"
  /\ task["background"].path # "failed"
  /\ clock < MaxLoads
  /\ task' = [task EXCEPT !["background"] = call_refresh(@, FALSE)]
  /\ UNCHANGED <<data_store, search_engine, app, clock, env, cache>>

\* data.py, _background_loop: the interval sleep ends and refresh() is called
BackgroundLoop ==
  /\ data_store.refresh_task
  /\ task["background"].pc = "idle"
  /\ clock < MaxLoads
  /\ task' = [task EXCEPT !["background"] = call_refresh(@, FALSE)]
  /\ UNCHANGED <<data_store, search_engine, app, clock, env, cache>>

\* main.py, POST /refresh: refresh(force=True) is called
RefreshEndpoint ==
  /\ app = "serving"
  /\ task["api"].pc = "idle"
  /\ clock < MaxLoads
  /\ task' = [task EXCEPT !["api"] = call_refresh(@, TRUE)]
  /\ UNCHANGED <<data_store, search_engine, app, clock, env, cache>>

\* the GET of _get_remote_total yields r: the rest of _get_remote_total and refresh
\* up to the first GET of fetch_all_messages, or to the return.  (The exit of
\* "async with" between the two adds no interleaving: the response is free.)
ProbeResponse(p, r) ==
  /\ task[p].pc = "probe"
  /\ IF r.kind = "RequestError" \/ r.status_code # 200
     THEN \* remote_total is None
          refresh_no_total(p)
     ELSE IF ~r.json
     THEN \* response.json() raises: not a RequestError, it leaves _get_remote_total
          refresh_except(p, task[p], task[p].fetched)
     ELSE IF total_unchanged(task[p].force, r.total)
     THEN refresh_unchanged(p)
     ELSE /\ task' = [task EXCEPT ![p] =
                        request_page(@, 0, None, <<>>)]
          /\ UNCHANGED <<data_store, search_engine, app, clock>>
  /\ UNCHANGED <<env, cache>>

\* the GET of _fetch_page yields r: the rest of _fetch_page and of the loop of
\* fetch_all_messages up to the next await, or to the end of refresh
PageResponse(p, r) ==
  /\ task[p].pc = "page"
  /\ IF r.kind = "RequestError"
     THEN fetch_page_failed(p)
     ELSE IF stops_pagination(r.status_code)
     THEN \* _fetch_page returns None: break, and refresh loads what it has
          refresh_load(p, task[p], task[p].messages, "stopped")
     ELSE IF r.status_code # 200
     THEN \* raise_for_status raises HTTPStatusError
          fetch_page_failed(p)
     ELSE fetch_page_ok(p, r)
  /\ UNCHANGED <<env, cache>>

\* the backoff sleep of _fetch_page ends: the next attempt of the for loop, or,
\* the range being exhausted, "return None" at the end of _fetch_page
BackoffElapsed(p) ==
  /\ task[p].pc = "backoff"
  /\ IF task[p].attempt + 1 < HTTP_MAX_RETRIES
     THEN /\ task' = [task EXCEPT ![p] = [@ EXCEPT !.pc = "page",
                                                   !.attempt = @ + 1,
                                                   !.delay = 0,
                                                   !.gets = @ + 1]]
          /\ UNCHANGED <<data_store, search_engine, app, clock>>
     ELSE refresh_load(p, task[p], task[p].messages, "stopped")
  /\ UNCHANGED <<env, cache>>

\* the sleep between two pages ends: the GET of the next page
PauseElapsed(p) ==
  /\ task[p].pc = "pause"
  /\ task' = [task EXCEPT ![p] = request_page(@, @.skip, @.total, @.messages)]
  /\ UNCHANGED <<data_store, search_engine, app, clock, env, cache>>

Next ==
  \/ Lifespan
  \/ BackgroundLoop
  \/ RefreshEndpoint
  \/ \E p \in Callers : \E r \in ProbeResponses : ProbeResponse(p, r)
  \/ \E p \in Callers : \E r \in PageResponses(p) : PageResponse(p, r)
  \/ \E p \in Callers : BackoffElapsed(p)
  \/ \E p \in Callers : PauseElapsed(p)

Spec == Init /\ [][Next]_vars

SpecCalls == InitCalls /\ [][Next]_vars

SpecSteady == InitSteady /\ [][Next]_vars

SpecCap == InitCap /\ [][Next]_vars


-----------------------------------------------------------------------------
(* The shutdown of the application *)

\* task.cancel() on the _background_loop task: CancelledError is raised in it at
\* the await it is suspended at, the interval sleep or an await inside refresh.
\* It is not an Exception, so neither the except of refresh nor that of the loop
\* catches it: the coroutine ends there, and the locals of refresh are dropped.
cancelled(t) ==
  IF t.pc = "idle" THEN t ELSE finished(t, "cancelled", "cancelled", t.fetched)

\* main.py, lifespan after the yield: stop_background_refresh()
Shutdown ==
  /\ app = "serving"
  /\ app' = "stopped"
  /\ data_store' = stop_background_refresh(data_store)
  /\ task' = IF data_store.refresh_task
             THEN [task EXCEPT !["background"] = cancelled(@)]
             ELSE task
  /\ UNCHANGED <<search_engine, clock, env, cache>>

NextStop ==
  \/ Next
  \/ Shutdown

\* any upstream, the application shut down at any time
SpecStop == Init /\ [][NextStop]_vars

\* every sleep ends and every GET returns or raises (the client has a timeout),
\* so a step of a coroutine that can be taken is taken; nothing makes the
\* endpoint be called or the application shut down
Fairness ==
  /\ WF_vars(Lifespan)
  /\ WF_vars(BackgroundLoop)
  /\ \A p \in Callers :
       /\ WF_vars(\E r \in ProbeResponses : ProbeResponse(p, r))
       /\ WF_vars(\E r \in PageResponses(p) : PageResponse(p, r))
       /\ WF_vars(BackoffElapsed(p))
       /\ WF_vars(PauseElapsed(p))

\* any upstream, the application shut down at any time, and the coroutines
\* scheduled fairly
SpecFair == Init /\ [][NextStop]_vars /\ Fairness

\* the calls recorded, the application shut down at any time, and the coroutines
\* scheduled fairly
SpecLoop == InitCalls /\ [][NextStop]_vars /\ Fairness
-----------------------------------------------------------------------------
(* Properties *)

InFlight(p) == task[p].pc # "idle"

\* the terms build_index posts for the message behind ref
posted(ref) ==
  {Tokens[ref].stemmed[i] : i \in 1..Len(Tokens[ref].stemmed)}
  \cup {Tokens[ref].name_tokens[i] : i \in 1..Len(Tokens[ref].name_tokens)}
  \cup {Tokens[ref].raw_tokens[i] : i \in 1..Len(Tokens[ref].raw_tokens)}

\* the terms build_index counts for the message behind ref
counted(ref) == Tokens[ref].stemmed \o Tokens[ref].name_tokens

\* se is exactly the index of the list se.messages, whole
FullyBuilt(se) ==
  LET docs == se.messages
      positions == 0..(Len(docs) - 1)
      terms == UNION {posted(docs[idx + 1]) : idx \in positions}
  IN /\ DOMAIN se.index = terms
     /\ \A term \in terms :
          se.index[term] = {idx \in positions : term \in posted(docs[idx + 1])}
     /\ DOMAIN se.doc_term_freq = positions
     /\ DOMAIN se.doc_lengths = positions
     /\ \A idx \in positions :
          LET all_tokens == counted(docs[idx + 1])
              occurs(term) == {i \in 1..Len(all_tokens) : all_tokens[i] = term}
          IN /\ DOMAIN se.doc_term_freq[idx] = {all_tokens[i] : i \in 1..Len(all_tokens)}
             /\ \A term \in DOMAIN se.doc_term_freq[idx] :
                  se.doc_term_freq[idx][term] = Cardinality(occurs(term))
             /\ se.doc_lengths[idx] = IF all_tokens = <<>> THEN 1 ELSE Len(all_tokens)
     /\ DOMAIN se.idf = terms
     /\ \A term \in terms :
          se.idf[term] = log_ratio(Len(docs), Cardinality(se.index[term]))

\* C1: whenever a search can run (between two steps of the coroutines, a refresh
\* being suspended or not), the postings, the term frequencies, the document
\* lengths and the idf table are exactly those of the engine's document list, and
\* the version names that list: it counts the loads, and the list is the one the
\* latest load published.
C1_NoPartialIndex ==
  /\ FullyBuilt(search_engine)
  /\ search_engine.version = clock
  /\ search_engine.messages = data_store.messages

\* C1 witness: the index of a list of two documents, rebuilt at least once, while
\* another refresh is suspended with documents of its own already fetched
C1_Witness ==
  /\ search_engine.version >= 2
  /\ Len(search_engine.messages) >= 2
  /\ \E p \in Callers : task[p].pc \in {"page", "backoff", "pause"} /\ task[p].messages # <<>>

\* C2: at most one execution of refresh is in progress at any time.
C2_MutualExclusion == Cardinality({p \in Callers : InFlight(p)}) <= 1

\* the refresh called by p returns or raises in this step
Ends(p) == task[p].pc # "idle" /\ task'[p].pc = "idle"

\* the refresh called by p ends in its except branch in this step
Fails(p) == Ends(p) /\ task'[p].path = "failed"

\* C3: a refresh that fails while the store is not ready raises to its caller, and
\* leaves the store not ready and its document list empty.
C3_BootstrapFailureRaises ==
  [][\A p \in Callers :
       (Fails(p) /\ ~data_store.ready) =>
         /\ task'[p].ret = "raise"
         /\ ~data_store'.ready
         /\ data_store'.messages = <<>>]_vars

\* C3 witness: a refresh has raised out of its page fetch, the store is not ready
\* and holds no document
C3_Witness ==
  /\ ~data_store.ready
  /\ data_store.messages = <<>>
  /\ \E p \in Callers :
       task[p].ret = "raise" /\ task[p].path = "failed" /\ task[p].fetched = "raised"

\* the probe of the refresh called by p fails in this step: no total (transport
\* error or a status other than 200) or a body that is not JSON
ProbeFails(p) ==
  task[p].pc = "probe" /\ Ends(p) /\ task'[p].path \in {"no_total", "failed"}

\* C4: a failed probe ends the refresh with no page fetch and no change of state;
\* it returns false when the store is ready and raises when it is not.
C4_ProbeFailure ==
  [][\A p \in Callers :
       ProbeFails(p) =>
         /\ task[p].pages = 0
         /\ Snapshot(data_store', search_engine') = Snapshot(data_store, search_engine)
         /\ task'[p].ret = IF data_store.ready THEN "False" ELSE "raise"]_vars

\* C5: a refresh that fails while the store is ready returns false, and the
\* document list, last total, last refresh time, ready flag and the engine are what
\* they were when refresh was called.
C5_FailureKeepsState ==
  [][\A p \in Callers :
       (Fails(p) /\ data_store.ready) =>
         /\ task'[p].ret = "False"
         /\ Snapshot(data_store', search_engine') = task[p].before]_vars

BecomesReady == ~data_store.ready /\ data_store'.ready

IsOk(r) == r.kind = "Response" /\ r.status_code = 200 /\ r.json

\* C7: a refresh(force=False) on a ready store whose probe reports the last known
\* total ends there: no page is requested, it returns false, the callback is not
\* invoked (the engine is untouched) and the list and the refresh time stay.
C7_UnchangedTotalSkips ==
  [][\A p \in Callers :
       (/\ task[p].pc = "probe"
        /\ task'[p] # task[p]
        /\ ~task[p].force
        /\ data_store.ready) =>
         \A r \in ProbeResponses :
           (/\ IsOk(r)
            /\ r.total = data_store.last_total
            /\ ProbeResponse(p, r)) =>
             /\ task'[p].pc = "idle"
             /\ task'[p].ret = "False"
             /\ task'[p].path = "unchanged"
             /\ search_engine' = search_engine
             /\ data_store'.messages = data_store.messages
             /\ data_store'.last_refresh = data_store.last_refresh]_vars

\* C7 witness: a refresh has returned false on the skip, the store being ready
C7_Witness ==
  /\ data_store.ready
  /\ \E p \in Callers :
       ~task[p].force /\ task[p].ret = "False" /\ task[p].path = "unchanged"

\* C8: with an upstream that reports the same total for ever, every
\* refresh(force=False) on a ready store whose probe is answered takes the skip.
C8_SteadyUpstreamSkips ==
  [][\A p \in Callers :
       (/\ task[p].pc = "probe"
        /\ task'[p] # task[p]
        /\ ~task[p].force
        /\ data_store.ready) =>
         \A r \in ProbeResponses :
           (IsOk(r) /\ ProbeResponse(p, r)) =>
             /\ task'[p].pc = "idle"
             /\ task'[p].path = "unchanged"]_vars


\* r is a transient failure of a GET: a transport error, or a status that is neither
\* 200 nor one of those that stop the pagination
Transient(r) ==
  \/ r.kind = "RequestError"
  \/ r.kind = "Response" /\ r.status_code \notin {200, 401, 403, 404, 429}

\* C9: a page fetch makes at most HTTP_MAX_RETRIES GETs, one more than the attempts
\* that failed so far; a 200 after k < HTTP_MAX_RETRIES transient failures is
\* returned by _fetch_page at GET k+1; a transient failure that is not the
\* HTTP_MAX_RETRIES-th is followed by a backoff and one more GET of the page; the
\* HTTP_MAX_RETRIES-th is raised after exactly HTTP_MAX_RETRIES GETs, and ends the
\* refresh in its except branch.
C9_RetryBound ==
  [][\A p \in Callers :
       /\ task'[p].gets <= HTTP_MAX_RETRIES
       /\ (task[p].pc = "backoff" /\ task'[p] # task[p] /\ BackoffElapsed(p)) =>
            /\ task'[p].pc = "page"
            /\ task'[p].gets = task[p].gets + 1
            /\ task'[p].fails = task[p].fails
       /\ (task[p].pc = "page" /\ task'[p] # task[p]) =>
            \A r \in PageResponses(p) :
              PageResponse(p, r) =>
                /\ task[p].gets = task[p].fails + 1
                /\ (r.kind = "Response" /\ r.status_code = 200) =>
                     /\ task[p].fails < HTTP_MAX_RETRIES
                     /\ task'[p].fetched = "response"
                /\ (Transient(r) /\ task[p].fails + 1 < HTTP_MAX_RETRIES) =>
                     /\ task'[p].pc = "backoff"
                     /\ task'[p].gets = task[p].gets
                     /\ task'[p].fails = task[p].fails + 1
                /\ (Transient(r) /\ task[p].fails + 1 >= HTTP_MAX_RETRIES) =>
                     /\ task[p].gets = HTTP_MAX_RETRIES
                     /\ Fails(p)
                     /\ task'[p].fetched = "raised"]_vars

\* a page was returned at its third GET, after two transient failures, and the
\* fetch goes on to the next page
C9_Witness ==
  \E p \in Callers :
    /\ task[p].pc = "pause"
    /\ task[p].fetched = "response"
    /\ task[p].fails = HTTP_MAX_RETRIES - 1
    /\ task[p].gets = HTTP_MAX_RETRIES

\* r is a response with one of the statuses that stop the pagination
StopResponse(r) == r.kind = "Response" /\ r.status_code \in {401, 403, 404, 429}

\* C10 as stated: the page that is answered 401, 403, 404 or 429 has been requested
\* exactly once; no retry, backoff or further page follows, no error is raised and
\* the refresh loads the documents of the earlier pages.
C10_StopStatusRequestedOnce ==
  [][\A p \in Callers :
       (task[p].pc = "page" /\ task'[p] # task[p]) =>
         \A r \in PageResponses(p) :
           (StopResponse(r) /\ PageResponse(p, r)) =>
             /\ task[p].gets = 1
             /\ Ends(p)
             /\ task'[p].path = "loaded"
             /\ data_store'.messages = task[p].messages]_vars

\* C10: a 401, 403, 404 or 429 answer to a GET of a page, be it the first GET of
\* that page or a retry after transient failures, ends the fetch there: no retry,
\* backoff or further page follows, no error is raised, and the refresh succeeds
\* and loads exactly the documents of the earlier pages.
C10_StopStatusEndsFetch ==
  [][\A p \in Callers :
       (task[p].pc = "page" /\ task'[p] # task[p]) =>
         \A r \in PageResponses(p) :
           (StopResponse(r) /\ PageResponse(p, r)) =>
             /\ task[p].gets = task[p].fails + 1
             /\ task[p].gets <= HTTP_MAX_RETRIES
             /\ Ends(p)
             /\ task'[p].fetched = "stopped"
             /\ task'[p].path = "loaded"
             /\ task'[p].ret = "True"
             /\ data_store'.ready
             /\ data_store'.messages = task[p].messages
             /\ data_store'.last_total = Len(task[p].messages)]_vars

\* the second page of the first load was answered with a stop status: the store
\* holds the documents of the first page
C10_Witness ==
  /\ clock = 1
  /\ data_store.messages # <<>>
  /\ \E p \in Callers : task[p].fetched = "stopped" /\ task[p].path = "loaded"

\* r is a 200 whose payload is malformed: a body that is not JSON, or items that do
\* not validate as Message
BadPayload(r) ==
  r.kind = "Response" /\ r.status_code = 200 /\ (~r.json \/ ~r.valid)

\* C11: a page whose body is malformed or holds an item that fails validation
\* aborts the refresh: it ends in its except branch, the list, the total, the ready
\* flag and the refresh time of the store and the engine stay as they are, and the
\* documents of the earlier pages of this fetch are dropped with its locals.
C11_InvalidPageAborts ==
  [][\A p \in Callers :
       (task[p].pc = "page" /\ task'[p] # task[p]) =>
         \A r \in PageResponses(p) :
           (BadPayload(r) /\ PageResponse(p, r)) =>
             /\ Fails(p)
             /\ task'[p].fetched = "response"
             /\ task'[p].messages = <<>>
             /\ data_store'.messages = data_store.messages
             /\ data_store'.last_total = data_store.last_total
             /\ data_store'.last_refresh = data_store.last_refresh
             /\ data_store'.ready = data_store.ready
             /\ search_engine' = search_engine]_vars

\* a refresh failed on the response to its second page, the first having been
\* valid: the store is still empty and not ready
C11_Witness ==
  /\ ~data_store.ready
  /\ data_store.messages = <<>>
  /\ search_engine.version = 0
  /\ \E p \in Callers :
       /\ task[p].path = "failed"
       /\ task[p].fetched = "response"
       /\ task[p].pages = 2

\* C12: the published list never holds more than MAX_RECORDS documents.
C12_ListWithinCap == Len(data_store.messages) <= MAX_RECORDS

\* a step in which a refresh commits its list
Loads == \E p \in Callers : Ends(p) /\ task'[p].path = "loaded"

\* C13: the version is 0 at the start and is the number of rebuilds done so far; a
\* step that completes a successful refresh raises it by exactly 1, every other
\* step (a skipped or failed refresh, a request, a retry) leaves it as it is.
C13_VersionCountsRebuilds ==
  [][/\ search_engine.version = clock
     /\ search_engine'.version = clock'
     /\ IF Loads
        THEN search_engine'.version = search_engine.version + 1
        ELSE search_engine'.version = search_engine.version]_vars

\* two rebuilds have been done, and a refresh that was skipped and one that failed
\* have ended
C13_Witness ==
  /\ search_engine.version = 2
  /\ \E p \in Callers : task[p].path = "failed"
  /\ \E p \in Callers : task[p].path \in {"unchanged", "no_total"}

\* C14: a refresh that returns true has invoked the callback once, with the list
\* the store holds from then on; a refresh that ends otherwise, and a step that ends
\* no refresh, invoke nothing (the engine stays as it is).
C14_CallbackOncePerSuccess ==
  [][/\ \A p \in Callers :
          Ends(p) =>
            IF task'[p].ret = "True"
            THEN /\ search_engine' = build_index(search_engine, data_store'.messages)
                 /\ search_engine'.messages = data_store'.messages
                 /\ search_engine'.version = search_engine.version + 1
            ELSE search_engine' = search_engine
     /\ (\A p \in Callers : ~Ends(p)) => search_engine' = search_engine]_vars

\* a refresh has returned true on a store that held another list: the engine was
\* rebuilt twice and holds the second list
C14_Witness ==
  /\ search_engine.version = 2
  /\ search_engine.messages = data_store.messages
  /\ data_store.messages # <<>>
  /\ \E p \in Callers : task[p].ret = "True"

-----------------------------------------------------------------------------
(* search.py: SearchEngine.search and its cache *)

\* the query strings of the model: "cat", "Cats", "ann", "cat ann", "cat dog",
\* "the cat", "the", "!?" and the empty string
Queries ==
  {<<"c", "a", "t">>, <<"C", "a", "t", "s">>, <<"a", "n", "n">>,
   <<"c", "a", "t", " ", "a", "n", "n">>, <<"c", "a", "t", " ", "d", "o", "g">>,
   <<"t", "h", "e", " ", "c", "a", "t">>, <<"t", "h", "e">>, <<"!", "?">>, <<>>}

\* _cached_search, "tokens = tokenize(query, remove_stopwords=True); stemmed =
\* [stem(t) for t in tokens]", tabulated over the queries of the model
QueryTerms == [query \in Queries |-> strs(stem_all(tokenize(query, TRUE)))]

\* scores are kept as integers: 10^-6 / ScoreScale units, ScoreScale being a common
\* multiple of the document lengths that occur, so that tf / doc_len is exact
ScoreScale == 60

\* SearchEngine._score
RECURSIVE score(_, _, _, _)
score(self, doc_idx, query_terms, k) ==
  IF k > Len(query_terms) THEN 0
  ELSE LET term == query_terms[k]
           doc_tf == IF doc_idx \in DOMAIN self.doc_term_freq
                     THEN self.doc_term_freq[doc_idx] ELSE EmptyMap
           doc_len == IF doc_idx \in DOMAIN self.doc_lengths
                      THEN self.doc_lengths[doc_idx] ELSE 1
           tf == IF term \in DOMAIN doc_tf THEN doc_tf[term] ELSE 0
           idf == IF term \in DOMAIN self.idf THEN self.idf[term] ELSE 0
       IN (IF tf > 0 THEN (tf * idf * ScoreScale) \div doc_len ELSE 0)
          + score(self, doc_idx, query_terms, k + 1)

\* self._index.get(token, set())
matches(self, token) == IF token \in DOMAIN self.index THEN self.index[token] ELSE {}

\* the union of the postings in place of their intersection
RECURSIVE intersect_any(_, _, _)
intersect_any(self, stemmed, k) ==
  IF k = Len(stemmed) THEN matches(self, stemmed[k])
  ELSE matches(self, stemmed[k]) \cup intersect_any(self, stemmed, k + 1)

\* the loop "result = matches.copy() if result is None else result & matches"
RECURSIVE intersect(_, _, _)
intersect(self, stemmed, k) ==
  IF k = Len(stemmed) THEN matches(self, stemmed[k])
  ELSE matches(self, stemmed[k]) \cap intersect(self, stemmed, k + 1)

\* the sort key (score, timestamp) of a position
sort_key(self, stemmed, idx) ==
  <<score(self, idx, stemmed, 1), Objects[self.messages[idx + 1]].timestamp>>

\* the comparison of the scores alone
key_greater_by_score(a, b) == a[1] > b[1]

\* tuple comparison a > b of two sort keys
key_greater(a, b) == a[1] > b[1] \/ (a[1] = b[1] /\ a[2] > b[2])

\* list.sort(reverse=True) is stable: x goes behind every element whose key is not
\* smaller than its own
RECURSIVE insert_sorted(_, _, _, _)
insert_sorted(self, stemmed, sorted, x) ==
  IF sorted = <<>> THEN <<x>>
  ELSE IF key_greater(sort_key(self, stemmed, x), sort_key(self, stemmed, Head(sorted)))
       THEN <<x>> \o sorted
       ELSE <<Head(sorted)>> \o insert_sorted(self, stemmed, Tail(sorted), x)

\* "scored = [... for idx in result]; scored.sort(...)": a set of small ints is
\* iterated in increasing order
RECURSIVE sort_positions(_, _, _, _)
sort_positions(self, stemmed, result, sorted) ==
  IF result = {} THEN sorted
  ELSE LET idx == CHOOSE i \in result : \A j \in result : i <= j
       IN sort_positions(self, stemmed, result \ {idx},
                         insert_sorted(self, stemmed, sorted, idx))

\* the body of SearchEngine._cached_search: the ranked positions and their number
ranking(self, query) ==
  LET stemmed == QueryTerms[query]
  IN IF stemmed = <<>> THEN [indices |-> <<>>, total |-> 0]
     ELSE LET result == intersect(self, stemmed, 1)
          IN IF result = {} THEN [indices |-> <<>>, total |-> 0]
             ELSE LET scored == sort_positions(self, stemmed, result, <<>>)
                  IN [indices |-> scored, total |-> Len(scored)]

\* the place of the key (query, version) in the cache, 0 if it is not there
cache_find(entries, query, version) ==
  IF \E i \in 1..Len(entries) :
       entries[i].query = query /\ entries[i].version = version
  THEN CHOOSE i \in 1..Len(entries) :
         entries[i].query = query /\ entries[i].version = version
  ELSE 0

\* entries without the one at place i
cache_without(entries, i) ==
  [j \in 1..(Len(entries) - 1) |-> IF j < i THEN entries[j] ELSE entries[j + 1]]

\* a hit returning what another query of the same version cached
lru_cache_by_version(self, entries, maxsize, query, version) ==
  LET i == IF \E j \in 1..Len(entries) : entries[j].version = version
           THEN CHOOSE j \in 1..Len(entries) : entries[j].version = version
           ELSE 0
      computed == ranking(self, query)
  IN IF i > 0
     THEN [value |-> entries[i].value,
           cache |-> Append(cache_without(entries, i), entries[i])]
     ELSE [value |-> computed,
           cache |-> Append(entries, [query |-> query, version |-> version,
                                      value |-> computed])]

\* a hit returning what the query cached at any version
lru_cache_by_query(self, entries, maxsize, query, version) ==
  LET i == IF \E j \in 1..Len(entries) : entries[j].query = query
           THEN CHOOSE j \in 1..Len(entries) : entries[j].query = query
           ELSE 0
      computed == ranking(self, query)
  IN IF i > 0
     THEN [value |-> entries[i].value,
           cache |-> Append(cache_without(entries, i), entries[i])]
     ELSE [value |-> computed,
           cache |-> Append(entries, [query |-> query, version |-> version,
                                      value |-> computed])]

\* a cache in which a hit does not count as a use: first in, first out
lru_cache_first_in_first_out(self, entries, maxsize, query, version) ==
  LET i == cache_find(entries, query, version)
      computed == ranking(self, query)
      entry == [query |-> query, version |-> version, value |-> computed]
  IN IF i > 0
     THEN [value |-> entries[i].value, cache |-> entries]
     ELSE [value |-> computed,
           cache |-> IF Len(entries) >= maxsize
                     THEN Append(Tail(entries), entry)
                     ELSE Append(entries, entry)]

\* @lru_cache(maxsize) around _cached_search(self, query, _version), the entries
\* from the least to the most recently used: a hit returns the stored value and
\* makes the entry the most recent; a miss computes the value, stores it and, the
\* cache being full, drops the least recent entry
lru_cache(self, entries, maxsize, query, version) ==
  LET i == cache_find(entries, query, version)
      computed == ranking(self, query)
      entry == [query |-> query, version |-> version, value |-> computed]
  IN IF i > 0
     THEN [value |-> entries[i].value,
           cache |-> Append(cache_without(entries, i), entries[i])]
     ELSE [value |-> computed,
           cache |-> IF Len(entries) >= maxsize
                     THEN Append(Tail(entries), entry)
                     ELSE Append(entries, entry)]

\* the slice taken from the start of the ranking
slice_without_skip(indices, skip, stop) ==
  SubSeq(indices, 1, IF stop - skip < Len(indices) THEN stop - skip ELSE Len(indices))

\* indices[skip : skip + limit] for skip >= 0 and limit >= 0
slice(indices, skip, stop) ==
  LET last == IF stop < Len(indices) THEN stop ELSE Len(indices)
  IN IF skip >= last THEN <<>> ELSE SubSeq(indices, skip + 1, last)

\* SearchEngine.search: the documents and the total it returns, and the cache it
\* leaves
search(self, entries, maxsize, query, skip, lim) ==
  LET found == lru_cache(self, entries, maxsize, query, self.version)
      page == slice(found.value.indices, skip, skip + lim)
  IN [documents |-> [i \in 1..Len(page) |-> self.messages[page[i] + 1]],
      total |-> found.value.total,
      cache |-> found.cache]

-----------------------------------------------------------------------------
(* The engine on its own, as tests/test_search.py uses it: build_index is called
   with a list, as the callback of the store calls it, searches and cache clears
   come in any order *)

\* the lists the engine is built from: what the upstream can serve in a row
Corpora == {served(before, n) : before \in 0..(Len(Collection) - 1), n \in 0..MaxDocs}

InitEngine ==
  /\ data_store = NewDataStore
  /\ search_engine = NewSearchEngine
  /\ task = [p \in Callers |-> IdleTask]
  /\ app = "created"
  /\ clock = 0
  /\ MAX_RECORDS = DEFAULT_MAX_RECORDS
  /\ fixed_total = None
  /\ snapshots = FALSE
  /\ page_items = MaxItems
  /\ SEARCH_CACHE_SIZE \in 1..MaxCache
  /\ cache = <<>>

\* search_engine.build_index(messages)
BuildIndex(messages) ==
  /\ search_engine.version < MaxBuilds
  /\ search_engine' = build_index(search_engine, messages)
  /\ UNCHANGED <<data_store, task, app, clock, env, cache>>

\* search_engine.search(query, skip=skip, limit=lim)
Search(query, skip, lim) ==
  /\ cache' = search(search_engine, cache, SEARCH_CACHE_SIZE, query, skip, lim).cache
  /\ UNCHANGED <<data_store, search_engine, task, app, clock, env>>

\* search_engine.clear_cache()
ClearCache ==
  /\ cache' = <<>>
  /\ UNCHANGED <<data_store, search_engine, task, app, clock, env>>

NextEngine ==
  \/ \E messages \in Corpora : BuildIndex(messages)
  \/ \E query \in Queries : \E skip \in 0..MaxSkip : \E lim \in 1..MaxLimit :
       Search(query, skip, lim)
  \/ ClearCache

SpecEngine == InitEngine /\ [][NextEngine]_vars

-----------------------------------------------------------------------------
(* Properties of the engine *)

\* what search returns now for the query, with the cache as it is
Found(query, skip, lim) ==
  search(search_engine, cache, SEARCH_CACHE_SIZE, query, skip, lim)

\* what search returns for the query when nothing is cached: the ranking is
\* computed from the index as it is now
Recomputed(query, skip, lim) ==
  search(search_engine, <<>>, SEARCH_CACHE_SIZE, query, skip, lim)

\* the cache holds a ranking of the query made at an older version
StaleResident(query) ==
  \E i \in 1..Len(cache) :
    cache[i].query = query /\ cache[i].version < search_engine.version

\* C15: a query whose ranking of an older version is still in the cache is
\* answered from the current document set: the documents are those of the current
\* list that a fresh computation gives, never those of the older ranking.
C15_VersionIsolation ==
  \A query \in Queries :
    StaleResident(query) =>
      /\ \A skip \in 0..MaxSkip : \A lim \in 1..MaxLimit :
           /\ Found(query, skip, lim).documents = Recomputed(query, skip, lim).documents
           /\ Found(query, skip, lim).total = Recomputed(query, skip, lim).total
      /\ LET documents == Found(query, 0, Len(search_engine.messages) + 1).documents
         IN \A k \in 1..Len(documents) :
              \E i \in 1..Len(search_engine.messages) :
                search_engine.messages[i] = documents[k]

\* a query was searched before and after a rebuild that changed its answer: both
\* rankings are in the cache
C15_Witness ==
  \E i, j \in 1..Len(cache) :
    /\ cache[i].query = cache[j].query
    /\ cache[i].version < cache[j].version
    /\ cache[j].version = search_engine.version
    /\ cache[i].value # cache[j].value

\* C16: whatever the cache holds, a search returns the documents and the total that
\* a recomputation from the current index returns, and every entry of the current
\* version holds the ranking a recomputation gives.
C16_CacheCorrect ==
  /\ \A query \in Queries : \A skip \in 0..MaxSkip : \A lim \in 1..MaxLimit :
       /\ Found(query, skip, lim).documents = Recomputed(query, skip, lim).documents
       /\ Found(query, skip, lim).total = Recomputed(query, skip, lim).total
  /\ \A i \in 1..Len(cache) :
       cache[i].version = search_engine.version =>
         cache[i].value = ranking(search_engine, cache[i].query)

\* the cache is full and its most recent entry is a non-empty ranking of the
\* current version: the next search of that query is a hit, another one evicts
C16_Witness ==
  /\ Len(cache) = SEARCH_CACHE_SIZE
  /\ cache[Len(cache)].version = search_engine.version
  /\ cache[Len(cache)].value.total > 0

\* seq[skip : skip + lim] of a sequence, for skip >= 0 and lim >= 0
Page(seq, skip, lim) ==
  [k \in 1..(IF Len(seq) - skip < 0 THEN 0
             ELSE IF Len(seq) - skip < lim THEN Len(seq) - skip ELSE lim) |->
     seq[skip + k]]

\* the positions of the current list whose document is in the postings of every
\* term of the query
Conjunction(query) ==
  {i \in 0..(Len(search_engine.messages) - 1) :
     \A k \in 1..Len(QueryTerms[query]) :
       /\ QueryTerms[query][k] \in DOMAIN search_engine.index
       /\ i \in search_engine.index[QueryTerms[query][k]]}

\* C17: on the current snapshot, search(q, skip, limit) returns the slice
\* [skip : skip + limit] of search(q, 0, skip + limit), and the total is the same
\* for every skip and limit: the number of matches.
C17_PaginationLaw ==
  \A query \in Queries : \A skip \in 0..MaxSkip : \A lim \in 1..MaxLimit :
    /\ Found(query, skip, lim).documents =
         Page(Found(query, 0, skip + lim).documents, skip, lim)
    /\ Found(query, skip, lim).total = Found(query, 0, 1).total
    /\ Found(query, skip, lim).total =
         Len(Found(query, 0, Len(search_engine.messages) + 1).documents)
    /\ QueryTerms[query] # <<>> =>
         Found(query, skip, lim).total = Cardinality(Conjunction(query))

\* a query with three matches has been searched on the current snapshot: its pages
\* at skip 0, 1 and 2 differ
C17_Witness ==
  \E i \in 1..Len(cache) :
    /\ cache[i].version = search_engine.version
    /\ cache[i].value.total = 3
    /\ Found(cache[i].query, 1, 1).documents # Found(cache[i].query, 0, 1).documents
    /\ Found(cache[i].query, 2, 1).documents # <<>>

\* C18: the positions a query with terms matches are exactly those in the postings
\* of all its terms: each returned document is in the postings of every term, none
\* of the conjunction is missing, and a term without postings makes the result
\* empty with total 0.
C18_Conjunctive ==
  \A query \in Queries :
    QueryTerms[query] # <<>> =>
      LET found == ranking(search_engine, query)
      IN /\ {found.indices[k] : k \in 1..Len(found.indices)} = Conjunction(query)
         /\ found.total = Cardinality(Conjunction(query))
         /\ Found(query, 0, Len(search_engine.messages) + 1).documents =
              [k \in 1..Len(found.indices) |->
                 search_engine.messages[found.indices[k] + 1]]
         /\ (\E k \in 1..Len(QueryTerms[query]) :
               QueryTerms[query][k] \notin DOMAIN search_engine.index) =>
              /\ Found(query, 0, 1).documents = <<>>
              /\ Found(query, 0, 1).total = 0

\* a query of two terms has been searched on the current snapshot: it matches a
\* document, and one of its terms alone matches more
C18_Witness ==
  \E i \in 1..Len(cache) :
    /\ cache[i].version = search_engine.version
    /\ Len(QueryTerms[cache[i].query]) = 2
    /\ cache[i].value.total >= 1
    /\ \E k \in 1..2 :
         Cardinality(matches(search_engine, QueryTerms[cache[i].query][k]))
           > cache[i].value.total

\* the ranked positions search works from now for the query, cached or computed
Ranked(query) ==
  lru_cache(search_engine, cache, SEARCH_CACHE_SIZE, query,
            search_engine.version).value.indices

\* the score of the position idx for the query, and the timestamp of its document
ScoreOf(query, idx) == score(search_engine, idx, QueryTerms[query], 1)

TimeOf(idx) == Objects[search_engine.messages[idx + 1]].timestamp

\* the ranking of the query is by score descending and, among equal scores, by
\* timestamp descending
Ordered(query) ==
  \A k \in 1..(Len(Ranked(query)) - 1) :
    LET a == Ranked(query)[k]
        b == Ranked(query)[k + 1]
    IN \/ ScoreOf(query, a) > ScoreOf(query, b)
       \/ ScoreOf(query, a) = ScoreOf(query, b) /\ TimeOf(a) >= TimeOf(b)

\* the position a has a strictly higher normalized frequency of the term than b
HigherFrequency(term, a, b) ==
  LET tf(i) == IF term \in DOMAIN search_engine.doc_term_freq[i]
               THEN search_engine.doc_term_freq[i][term] ELSE 0
  IN tf(a) * search_engine.doc_lengths[b] > tf(b) * search_engine.doc_lengths[a]

\* a comes before b in the ranking of the query
RankedBefore(query, a, b) ==
  \E i, j \in 1..Len(Ranked(query)) :
    i < j /\ Ranked(query)[i] = a /\ Ranked(query)[j] = b

\* C19 as stated: results are by score descending, then timestamp descending, and
\* of two matches of a one-term query the one with the strictly higher normalized
\* frequency of the term comes first.
C19_HigherFrequencyFirst ==
  \A query \in Queries :
    /\ Ordered(query)
    /\ Len(QueryTerms[query]) = 1 =>
         \A k, l \in 1..Len(Ranked(query)) :
           HigherFrequency(QueryTerms[query][1], Ranked(query)[k], Ranked(query)[l])
             => RankedBefore(query, Ranked(query)[k], Ranked(query)[l])

\* C19: results are by score descending, then timestamp descending; of two matches
\* of a one-term query the one with the strictly higher normalized frequency comes
\* first when the idf of the term is positive; when it is 0 (the term is in every
\* document) all scores are 0 and the order is by timestamp descending alone.
C19_RankedByScoreThenTime ==
  \A query \in Queries :
    /\ Ordered(query)
    /\ (Len(QueryTerms[query]) = 1 /\ Ranked(query) # <<>>) =>
         LET term == QueryTerms[query][1]
         IN IF search_engine.idf[term] > 0
            THEN \A k, l \in 1..Len(Ranked(query)) :
                   HigherFrequency(term, Ranked(query)[k], Ranked(query)[l])
                     => RankedBefore(query, Ranked(query)[k], Ranked(query)[l])
            ELSE \A k \in 1..(Len(Ranked(query)) - 1) :
                   /\ ScoreOf(query, Ranked(query)[k]) = 0
                   /\ TimeOf(Ranked(query)[k]) >= TimeOf(Ranked(query)[k + 1])

\* a one-term query has been searched on the current snapshot, the idf of the term
\* is positive, and the first result is older than the second: the frequency of
\* the term put it first
C19_Witness ==
  \E i \in 1..Len(cache) :
    /\ cache[i].version = search_engine.version
    /\ Len(QueryTerms[cache[i].query]) = 1
    /\ cache[i].value.total >= 2
    /\ search_engine.idf[QueryTerms[cache[i].query][1]] > 0
    /\ TimeOf(cache[i].value.indices[1]) < TimeOf(cache[i].value.indices[2])
    /\ HigherFrequency(QueryTerms[cache[i].query][1],
                       cache[i].value.indices[1], cache[i].value.indices[2])

\* the queries without a term: the empty string, a stop word, punctuation
EmptyQueries == {<<>>, <<"t", "h", "e">>, <<"!", "?">>}

\* C20: a query that is empty or holds only stop words or only non-token
\* characters returns no document and total 0, on every snapshot, the initial one
\* included, whatever skip and limit are.
C20_EmptyQuery ==
  \A query \in EmptyQueries : \A skip \in 0..MaxSkip : \A lim \in 1..MaxLimit :
    /\ query \in Queries
    /\ Found(query, skip, lim).documents = <<>>
    /\ Found(query, skip, lim).total = 0

\* the stop word "the" has been searched on a snapshot that holds a document with
\* "the" in its text: nothing was found
C20_Witness ==
  /\ \E i \in 1..Len(search_engine.messages) : search_engine.messages[i] = 2
  /\ \E i \in 1..Len(cache) :
       /\ cache[i].version = search_engine.version
       /\ cache[i].query = <<"t", "h", "e">>
       /\ cache[i].value.total = 0
-----------------------------------------------------------------------------
(* Properties of the retries of one page fetch *)

\* C23: within one page fetch the i-th failed attempt that is not the last allowed
\* one is followed by a sleep of 2^(i-1) seconds and then by attempt i+1; the last
\* allowed attempt is followed by no sleep, and no sleep is taken before the first
\* attempt.
C23_BackoffDoubles ==
  [][\A p \in Callers :
       /\ \* the first attempt is sent with no sleep before it
          (task[p].pc # "page" /\ task[p].pc # "backoff" /\ task'[p].pc = "page") =>
            /\ task'[p].attempt = 0
            /\ task'[p].delay = 0
            /\ task'[p].gets = 1
            /\ task'[p].fails = 0
       /\ \* a failed attempt: a sleep of 2^(i-1) unless it was the last allowed one
          (task[p].pc = "page" /\ task'[p] # task[p] /\ task'[p].fails = task[p].fails + 1) =>
            LET i == task'[p].fails
            IN /\ i = task[p].gets
               /\ IF i < HTTP_MAX_RETRIES
                  THEN /\ task'[p].pc = "backoff"
                       /\ task'[p].delay = 2 ^ (i - 1)
                  ELSE /\ task'[p].pc = "idle"
                       /\ task'[p].delay = 0
       /\ \* the sleep over, attempt i+1 is sent
          (task[p].pc = "backoff" /\ task'[p] # task[p]) =>
            /\ task'[p].pc = "page"
            /\ task'[p].gets = task[p].fails + 1
            /\ task'[p].fails = task[p].fails
            /\ task'[p].delay = 0]_vars

\* a page fetch is in its second sleep, of two seconds, after two failed attempts
C23_Witness ==
  \E p \in Callers :
    /\ task[p].pc = "backoff"
    /\ task[p].fails = 2
    /\ task[p].delay = 2

-----------------------------------------------------------------------------
(* Properties of what the store publishes *)

\* C26: in every reachable state the last-known total of the store is the number
\* of documents it holds, whatever total the upstream reported, and until the
\* first successful refresh the list is empty and the total is 0.
C26_TotalIsCount ==
  /\ data_store.last_total = Len(data_store.messages)
  /\ ~data_store.ready =>
       /\ data_store.messages = <<>>
       /\ data_store.last_total = 0

\* a refresh has loaded one document while another refresh, whose first page
\* reported a total of more than one page, is still fetching
C26_Witness ==
  /\ data_store.ready
  /\ data_store.last_total = 1
  /\ Len(data_store.messages) = 1
  /\ \E p, q \in Callers :
       /\ task[p].path = "loaded"
       /\ task[q].pc = "pause"
       /\ task[q].total > limit

\* C27: with build_index registered as the callback, wherever a reader can run
\* (between any two steps of any refreshes, overlapping ones included) the list of
\* the store is the list the engine has indexed, so the count the store reports
\* is the number of indexed documents; both are the list of the refresh that
\* finished last.
C27_StoreAndIndexAgree ==
  /\ search_engine.messages = data_store.messages
  /\ Len(data_store.messages) = Cardinality(DOMAIN search_engine.doc_lengths)
  /\ FullyBuilt(search_engine)

\* two refreshes overlap: one has published a list of documents, the other is
\* still fetching and holds another list
C27_Witness ==
  /\ data_store.on_refresh = "build_index"
  /\ data_store.messages # <<>>
  /\ \E p, q \in Callers :
       /\ p # q
       /\ task[p].path = "loaded"
       /\ InFlight(q)
       /\ task[q].pages >= 1
       /\ task[q].messages # data_store.messages

\* the call of refresh by p is waiting for the answer to its very first page
\* request, sent with no failed attempt before it
FirstRequest(p) ==
  /\ task[p].pc = "page"
  /\ task[p].pages = 1
  /\ task[p].gets = 1

\* a 200 whose body is JSON with no items
EmptyPage(r) ==
  r.kind = "Response" /\ r.status_code = 200 /\ r.json /\ r.items = <<>>

\* C29: a refresh whose very first page request is answered by 401, 403, 404 or
\* 429, or by a page with no items, is a successful refresh: it returns true,
\* replaces the list of the store by the empty list, sets the last-known total to
\* 0, marks the store ready and rebuilds the index over no document.
C29_FirstPageStopLoadsNothing ==
  [][\A p \in Callers :
       (FirstRequest(p) /\ task'[p] # task[p]) =>
         \A r \in PageResponses(p) :
           ((StopResponse(r) \/ EmptyPage(r)) /\ PageResponse(p, r)) =>
             /\ Ends(p)
             /\ task'[p].ret = "True"
             /\ data_store'.messages = <<>>
             /\ data_store'.last_total = 0
             /\ data_store'.ready
             /\ data_store'.last_refresh = clock'
             /\ clock' = clock + 1
             /\ search_engine' = build_index(search_engine, <<>>)
             /\ search_engine'.messages = <<>>
             /\ search_engine'.index = <<>>
             /\ search_engine'.version = search_engine.version + 1]_vars

\* a store that held a document was emptied by a refresh that stopped on its
\* first page request: every load so far ended on a stop status, the store is
\* ready with no document and an empty index, and a refresh that was called just
\* before that load, when the store still held a document, is in progress
C29_Witness ==
  /\ data_store.ready
  /\ data_store.messages = <<>>
  /\ data_store.last_total = 0
  /\ search_engine.index = <<>>
  /\ \A p \in Callers : task[p].path = "loaded" => task[p].fetched = "stopped"
  /\ \E p \in Callers : p # "lifespan" /\ task[p].path = "loaded"
  /\ \E q \in Callers :
       /\ InFlight(q)
       /\ task[q].before.messages # <<>>
       /\ task[q].before.search_engine.version = search_engine.version - 1
-----------------------------------------------------------------------------
(* The index by itself: build_index called with any list of the messages of the
   model, a message that yields no token included *)

\* every list of at most MaxDocs messages
Lists == UNION {[1..n -> Refs] : n \in 0..MaxDocs}

NextIndex == \E messages \in Lists : BuildIndex(messages)

SpecIndex == InitEngine /\ [][NextIndex]_vars

\* the positions of the documents of the engine
Positions == 0..(Len(search_engine.messages) - 1)

\* C25: after build_index with a list that is not empty, every term of the index
\* has postings that are not empty and are positions of the list (so at most as
\* many as there are documents), every such term has an idf, which is ln(N /
\* |postings|) and at least 0, the idf is 0 exactly for the terms whose postings
\* hold every document, and every document has a length of at least 1, one that
\* yields no token included.
C25_IndexWellFormed ==
  (search_engine.version > 0 /\ search_engine.messages # <<>>) =>
    LET n_docs == Len(search_engine.messages)
    IN /\ DOMAIN search_engine.idf = DOMAIN search_engine.index
       /\ \A term \in DOMAIN search_engine.index :
            LET postings == search_engine.index[term]
            IN /\ postings # {}
               /\ postings \subseteq Positions
               /\ Cardinality(postings) <= n_docs
               /\ search_engine.idf[term] = log_ratio(n_docs, Cardinality(postings))
               /\ search_engine.idf[term] >= 0
               /\ (search_engine.idf[term] = 0) <=> (postings = Positions)
       /\ DOMAIN search_engine.doc_lengths = Positions
       /\ \A idx \in Positions :
            /\ search_engine.doc_lengths[idx] >= 1
            /\ Tokens[search_engine.messages[idx + 1]].stemmed
                 \o Tokens[search_engine.messages[idx + 1]].name_tokens = <<>>
                 => search_engine.doc_lengths[idx] = 1

\* the index of three documents of which one yields no token: a term is in both
\* others (idf above 0, as the third lacks it), a term is in one only
C25_Witness ==
  /\ search_engine.messages = <<4, 5, 1>>
  /\ search_engine.doc_lengths[1] = 1
  /\ search_engine.doc_term_freq[1] = EmptyMap
  /\ search_engine.index["cat"] = {0, 2}
  /\ search_engine.idf["cat"] > 0
  /\ search_engine.index["ann"] = {2}

-----------------------------------------------------------------------------
(* Properties of the query cache *)

\* the keys of the entries of a cache
Keys(entries) == {<<entries[i].query, entries[i].version>> : i \in 1..Len(entries)}

\* entries holds the entry of this key
Holds(entries, query, version) == <<query, version>> \in Keys(entries)

\* the cache a search for this query leaves, from these entries
After(entries, query) ==
  search(search_engine, entries, SEARCH_CACHE_SIZE, query, 0, 1).cache

\* the key of the first of the entries that is not this key
FirstOther(entries, key) ==
  LET i == CHOOSE i \in 1..Len(entries) :
             /\ <<entries[i].query, entries[i].version>> # key
             /\ \A j \in 1..(i - 1) : <<entries[j].query, entries[j].version>> = key
  IN <<entries[i].query, entries[i].version>>

\* a search makes the entry of its query the most recently used, a hit as well as
\* a miss: when the next search misses on a full cache, the entry that goes is
\* the one that was least recently used before the first search, the entry of the
\* first search aside
UseOrder ==
  \A used \in Queries :
    LET key == <<used, search_engine.version>>
        once == After(cache, used)
    IN \A missed \in Queries :
         (/\ Len(once) = SEARCH_CACHE_SIZE
          /\ ~Holds(once, missed, search_engine.version)) =>
           LET victim == IF Len(once) = 1 THEN key ELSE FirstOther(once, key)
               oldest == IF Keys(cache) \ {key} = {} THEN key
                         ELSE IF Len(cache) = SEARCH_CACHE_SIZE /\ ~Holds(cache, used, search_engine.version)
                         THEN IF Len(cache) = 1 THEN key ELSE FirstOther(Tail(cache), key)
                         ELSE FirstOther(cache, key)
           IN /\ victim = oldest
              /\ Keys(After(once, missed)) =
                   (Keys(once) \ {victim}) \cup {<<missed, search_engine.version>>}

\* C22: the cache never holds more entries than SEARCH_CACHE_SIZE, nor two for one
\* key.  A rebuild leaves it as it is; a clear empties it; and a search changes it
\* in one of three ways: a hit makes its entry the most recently used and removes
\* none, a miss below capacity adds its entry as the most recent and removes none,
\* a miss at capacity adds its entry and removes the least recently used one and
\* no other.  (The entries are kept from the least to the most recently used.)
C22_BoundedLeastRecentlyUsed ==
  /\ [](/\ Len(cache) <= SEARCH_CACHE_SIZE
        /\ Cardinality(Keys(cache)) = Len(cache)
        /\ UseOrder)
  /\ [][/\ search_engine' # search_engine => cache' = cache
        /\ (search_engine' = search_engine /\ cache' # cache) =>
             \/ cache' = <<>>
             \/ \E query \in Queries :
                  LET version == search_engine.version
                      last == cache'[Len(cache')]
                  IN /\ cache' # <<>>
                     /\ last.query = query
                     /\ last.version = version
                     /\ IF Holds(cache, query, version)
                        THEN \* a hit: the entry moves to the end, the others keep
                             \* their order
                             LET i == cache_find(cache, query, version)
                             IN /\ last = cache[i]
                                /\ SubSeq(cache', 1, Len(cache') - 1) = cache_without(cache, i)
                        ELSE IF Len(cache) < SEARCH_CACHE_SIZE
                        THEN SubSeq(cache', 1, Len(cache') - 1) = cache
                        ELSE /\ Len(cache') = SEARCH_CACHE_SIZE
                             /\ SubSeq(cache', 1, Len(cache') - 1) = Tail(cache)]_vars

\* a full cache of two entries of which the older one is of an earlier version: a
\* rebuild has not removed it
C22_Witness ==
  /\ SEARCH_CACHE_SIZE = 2
  /\ Len(cache) = 2
  /\ cache[1].version < search_engine.version
  /\ cache[2].version = search_engine.version
  /\ cache[1].value.total > 0
-----------------------------------------------------------------------------
(* Properties of the background loop *)

\* the application is shut down in this step
Stops == app = "serving" /\ app' = "stopped"

\* the fields of the store that a refresh publishes
Published(ds) == <<ds.messages, ds.last_total, ds.last_refresh, ds.ready>>

\* stopping the loop leaves what the store and the engine publish as it is, and
\* a loop that is in its interval sleep just ends
StopKeepsStore ==
  [][Stops =>
       /\ Published(data_store') = Published(data_store)
       /\ search_engine' = search_engine
       /\ ~data_store'.refresh_task
       /\ data_store'.loops = 0
       /\ ~InFlight("background") => task' = task]_vars

\* C21: stopping the background loop cancels a pending interval sleep and changes
\* nothing of what the store publishes, and a refresh that the loop has started
\* is not torn down by the stop: it stays in progress as it is, to complete and
\* publish or to fail in its except branch later.
C21_StopSparesRefresh ==
  [][Stops =>
       /\ Published(data_store') = Published(data_store)
       /\ search_engine' = search_engine
       /\ task'["background"] = task["background"]]_vars

\* the loop is registered and between two refreshes, and the model still follows
\* it (it follows the refreshes up to MaxLoads loads)
Sleeping ==
  /\ data_store.refresh_task
  /\ ~InFlight("background")
  /\ clock < MaxLoads

\* C24: once started, the loop calls refresh(force=false) again after every
\* interval until it is stopped.  Only the shutdown unregisters it: a refresh of
\* the loop that fails, is skipped or raises leaves it registered; every refresh
\* of the loop ends; and from every state in which the loop is in its interval
\* sleep a further refresh of the loop is called, unless the loop is stopped
\* first.  There is at most one loop, and one exactly while one is registered.
C24_LoopKeepsRefreshing ==
  /\ [](/\ data_store.loops <= 1
        /\ data_store.refresh_task <=> data_store.loops = 1)
  /\ [][/\ (data_store.refresh_task /\ ~data_store'.refresh_task) => Stops
        /\ (Ends("background") /\ ~Stops) =>
             /\ data_store'.refresh_task
             /\ data_store'.loops = 1
        /\ (~InFlight("background") /\ task'["background"].pc # "idle") =>
             /\ task'["background"].pc = "probe"
             /\ ~task'["background"].force
             /\ data_store.refresh_task]_vars
  /\ InFlight("background") ~> ~InFlight("background")
  /\ Sleeping ~>
       \/ task["background"].pc = "probe"
       \/ ~data_store.refresh_task
       \/ clock >= MaxLoads

\* the loop has called refresh again after a refresh of its own that failed
C24_Witness ==
  /\ data_store.refresh_task
  /\ data_store.loops = 1
  /\ task["background"].pc = "probe"
  /\ task["background"].after = "failed"

-----------------------------------------------------------------------------
(* Properties of the pagination *)

\* the call of refresh by p is inside fetch_all_messages
Fetching(p) == task[p].pc \in {"page", "backoff", "pause"}

\* ceil(a / b) for a >= 0 and b > 0
ceil_div(a, b) == (a + b - 1) \div b

\* the most pages a fetch requests whose first page reports this total
PageBound(total) == ceil_div(min(total, MAX_RECORDS), limit)

\* a 200 whose body holds items that validate
ValidPage(r) == IsOk(r) /\ r.items # <<>> /\ r.valid

\* the offset, the page count and the total of a fetch go together: the offset is
\* the page size times the number of pages answered, and the total is read on the
\* first page and kept
Paginates ==
  /\ [](\A p \in Callers :
          Fetching(p) =>
            /\ task[p].pages >= 1
            /\ task[p].skip =
                 limit * (IF task[p].pc = "pause" THEN task[p].pages ELSE task[p].pages - 1)
            /\ task[p].total = None <=> (task[p].pages = 1 /\ task[p].pc # "pause"))
  /\ [][\A p \in Callers :
          (Fetching(p) /\ task'[p] # task[p] /\ Fetching(p)') =>
            /\ task[p].total # None => task'[p].total = task[p].total
            /\ task'[p].pages =
                 IF task[p].pc = "pause" THEN task[p].pages + 1 ELSE task[p].pages
            /\ task'[p].skip =
                 IF task'[p].pc = "pause" /\ task[p].pc # "pause"
                 THEN task[p].skip + limit ELSE task[p].skip]_vars
  /\ \A p \in Callers : Fetching(p) ~> ~Fetching(p)

\* C28 as stated: a fetch ends, its offset grows by the page size on every page,
\* its total is that of the first page, and it requests at least one page and at
\* most ceil(min(first-page total, MAX_RECORDS) / 100) pages.
C28_PagesWithinTotal ==
  /\ Paginates
  /\ [][\A p \in Callers :
          (task[p].pc = "page" /\ task'[p] # task[p]) =>
            IF task[p].total = None
            THEN \A r \in PageResponses(p) :
                   (ValidPage(r) /\ PageResponse(p, r)) =>
                     task[p].pages <= PageBound(r.total)
            ELSE task[p].pages <= PageBound(task[p].total)]_vars

\* C28, amended: the same with the bound max(1, ceil(min(first-page total,
\* MAX_RECORDS) / 100)): the first page is requested before any total is known,
\* and a first page that reports the total 0, or none, is still one page.
C28_PagesWithinTotalOrOne ==
  /\ Paginates
  /\ [][\A p \in Callers :
          (task[p].pc = "page" /\ task'[p] # task[p]) =>
            IF task[p].total = None
            THEN \A r \in PageResponses(p) :
                   (ValidPage(r) /\ PageResponse(p, r)) =>
                     /\ task[p].pages = 1
                     /\ task[p].pages <= max(1, PageBound(r.total))
                     /\ Fetching(p)' => task'[p].total = r.total
            ELSE /\ task[p].pages <= max(1, PageBound(task[p].total))
                 /\ task[p].pages <= PageBound(task[p].total)]_vars

\* a fetch whose first page reported a total of two pages is waiting for its
\* second, and last, page
C28_Witness ==
  \E p \in Callers :
    /\ task[p].pc = "page"
    /\ task[p].pages = 2
    /\ task[p].skip = limit
    /\ task[p].total = limit + 1
    /\ PageBound(task[p].total) = 2
=============================================================================
